---- MODULE Spec2Model ----
(***************************************************************************)
(* Model of the msch schematic container codec: Schematic.read,            *)
(* Schematic.write, the Schematic constructor, sortTiles, unsortTiles,     *)
(* getBlockMap and setTileAt of src/src/Schematic.ts.                       *)
(*                                                                         *)
(* Tiles are objects: `heap' is the sequence of Tile objects allocated so  *)
(* far and a reference is an index into it (0 is null / undefined / an     *)
(* array hole).  A grid is a sequence of rows (row y is element y + 1),    *)
(* each a sequence of references (column x is element x + 1).              *)
(*                                                                         *)
(* The wire is modelled field by field, every integer field as the bytes   *)
(* the format stores for it, so that the signedness of each reader and     *)
(* writer is part of the model.  Strings are atomic values.                *)
(***************************************************************************)
EXTENDS Integers, Sequences, FiniteSets, TLC

VARIABLES
    heap,       \* Seq(Tile): the Tile objects of the caller
    sch,        \* the caller's Schematic (fields height, width, version, tags, labels, tiles)
    thrown,     \* "" or the exception the last operation on sch raised
    inputData,  \* the buffer handed to Schematic.read
    output,     \* what Schematic.write returned (NoBuffer before the first write)
    result      \* what Schematic.read did (NoResult before the first read)

vars == <<heap, sch, thrown, inputData, output, result>>

(***************************************************************************)
(* Bounds of the model.                                                    *)
(***************************************************************************)
MaxCells == 4       \* the constructed grids have width * height <= MaxCells
MaxRecords == 2     \* tile records in a decoded payload
MaxSide == 2        \* width and height of the grids setTileAt works on
MaxObjects == 2     \* Tile objects of the caller in the setTileAt model
MaxNames == 130     \* distinct block names of the wide schematic

(***************************************************************************)
(* SmartBuffer: big-endian fixed-width integers.                           *)
(***************************************************************************)
readUInt8(b) == b

readInt8(b) == IF b >= 128 THEN b - 256 ELSE b

writeUInt8(v) == v % 256

readUInt16BE(bs) == bs[1] * 256 + bs[2]

writeUInt16BE(v) == <<(v \div 256) % 256, v % 256>>

readInt32BE(bs) == readInt8(bs[1]) * 16777216 + bs[2] * 65536 + bs[3] * 256 + bs[4]

writeInt32BE(v) ==
    <<(v \div 16777216) % 256, (v \div 65536) % 256, (v \div 256) % 256, v % 256>>

(***************************************************************************)
(* Point2: a coordinate pair in one 32-bit integer, 16 bits per axis, x in *)
(* the high half, each half read back as a signed 16-bit value.            *)
(***************************************************************************)
Signed16(h) == IF h >= 32768 THEN h - 65536 ELSE h

pack(x, y) == x * 65536 + (y % 65536)

unpack(pos) == <<pos \div 65536, Signed16(pos % 65536)>>

(***************************************************************************)
(* TypeIO: a configuration value is a tag byte and the payload the tag     *)
(* determines.  The model carries tags 0 (null), 1 (int) and 5 (content);  *)
(* a BlockConfig is [type, value] with value a tuple of integers.          *)
(***************************************************************************)
ConfigNull == [type |-> 0, value |-> <<>>]

readObject(w) ==
    CASE w[1] = 0 -> [type |-> 0, value |-> <<>>]
      [] w[1] = 1 -> [type |-> 1, value |-> <<readInt32BE(SubSeq(w, 2, 5))>>]
      [] w[1] = 5 -> [type |-> 5, value |-> <<readInt8(w[2]), readUInt16BE(SubSeq(w, 3, 4))>>]

writeObject(c) ==
    CASE c.type = 0 -> <<0>>
      [] c.type = 1 -> <<1>> \o writeInt32BE(c.value[1])
      [] c.type = 5 -> <<5, writeUInt8(c.value[1])>> \o writeUInt16BE(c.value[2])

(***************************************************************************)
(* Tile.  readConfig and writeConfig unpack and re-pack the compressed     *)
(* config of processor blocks and leave every other tile as it is; the     *)
(* model has no processor block.                                           *)
(***************************************************************************)
Tile(name, x, y, config, rotation) ==
    [name |-> name, x |-> x, y |-> y, config |-> config, rotation |-> rotation]

readConfig(t) == t

writeConfig(t) == t

(***************************************************************************)
(* JSON.parse on the tag values of the model.  A JSON value is             *)
(* [type, items, text]; an absent tag is <<>> and a present one <<v>>.     *)
(* JSON.parse(undefined) and JSON.parse of a non-JSON text throw.          *)
(***************************************************************************)
JString(s) == [type |-> "string", items |-> <<>>, text |-> s]
JNumber(s) == [type |-> "number", items |-> <<>>, text |-> s]
JObject(s) == [type |-> "object", items |-> <<>>, text |-> s]
JArray(items) == [type |-> "array", items |-> items, text |-> ""]
JThrows == [type |-> "SyntaxError", items |-> <<>>, text |-> ""]

StringList(ss) == JArray([i \in 1..Len(ss) |-> JString(ss[i])])
EmptyList == JArray(<<>>)

IsStringList(v) ==
    v.type = "array" /\ \A i \in 1..Len(v.items) : v.items[i].type = "string"

JSONparse(arg) ==
    IF arg = <<>> THEN JThrows
    ELSE CASE arg[1] = "[]" -> EmptyList
           [] arg[1] = "[\"a\"]" -> StringList(<<"a">>)
           [] arg[1] = "[\"a\",\"b\"]" -> StringList(<<"a", "b">>)
           [] arg[1] = "[1]" -> JArray(<<JNumber("1")>>)
           [] arg[1] = "5" -> JNumber("5")
           [] arg[1] = "{}" -> JObject("{}")
           [] arg[1] = "\"a\"" -> JString("a")
           [] OTHER -> JThrows

(***************************************************************************)
(* Tag maps: a JavaScript object with string keys, as the sequence of its  *)
(* entries in insertion order.                                             *)
(***************************************************************************)
HasKey(tags, k) == \E i \in 1..Len(tags) : tags[i][1] = k

Get(tags, k) ==
    IF HasKey(tags, k)
    THEN <<tags[CHOOSE i \in 1..Len(tags) : tags[i][1] = k][2]>>
    ELSE <<>>

Put(tags, k, v) ==
    IF HasKey(tags, k)
    THEN [i \in 1..Len(tags) |-> IF tags[i][1] = k THEN <<k, v>> ELSE tags[i]]
    ELSE Append(tags, <<k, v>>)

RECURSIVE readTags(_, _)
readTags(pairs, tags) ==
    IF pairs = <<>> THEN tags
    ELSE readTags(Tail(pairs), Put(tags, pairs[1][1], pairs[1][2]))

(***************************************************************************)
(* Results of read, and of the operations that may throw.                  *)
(***************************************************************************)
NoSchematic ==
    [height |-> 0, width |-> 0, version |-> 0, tags |-> <<>>, labels |-> EmptyList,
     tiles |-> <<>>]

Ok(s, h) == [kind |-> "ok", msg |-> "", arg |-> <<>>, sch |-> s, heap |-> h]
Err(m, a) == [kind |-> "error", msg |-> m, arg |-> a, sch |-> NoSchematic, heap |-> <<>>]
Throw(m) == [kind |-> "throw", msg |-> m, arg |-> <<>>, sch |-> NoSchematic, heap |-> <<>>]
NoResult == [kind |-> "none", msg |-> "", arg |-> <<>>, sch |-> NoSchematic, heap |-> <<>>]

(***************************************************************************)
(* Schematic.sortTiles: a list of tiles into a height x width grid.        *)
(* `tiles' is a sequence of references; a hole of a sparse array reads as  *)
(* undefined (0) in for-of, and undefined.x is a TypeError.  The loop      *)
(* stops at the first tile that is undefined or out of bounds; otherwise   *)
(* every cell ends with the last tile of the list stored at it.            *)
(***************************************************************************)
BlankGrid(width, height) == [r \in 1..height |-> [c \in 1..width |-> 0]]

sortTiles(tiles, h, width, height) ==
    LET outside(i) ==
            LET tile == h[tiles[i]]
            IN  ~(0 <= tile.x /\ tile.x < width /\ 0 <= tile.y /\ tile.y < height)
        stops == {i \in 1..Len(tiles) : tiles[i] = 0 \/ outside(i)}
        first == CHOOSE i \in stops : \A j \in stops : i <= j
        storedAt(r, c) ==
            {i \in 1..Len(tiles) : h[tiles[i]].y = r - 1 /\ h[tiles[i]].x = c - 1}
        last(S) == CHOOSE i \in S : \A j \in S : j <= i
        sortedTiles ==
            [r \in 1..height |-> [c \in 1..width |->
                IF storedAt(r, c) = {} THEN BlankGrid(width, height)[r][c]
                ELSE tiles[last(storedAt(r, c))]]]
    IN  IF stops # {}
        THEN [thrown |-> IF tiles[first] = 0 THEN "TypeError" ELSE "Invalid position",
              grid |-> <<>>]
        ELSE [thrown |-> "", grid |-> sortedTiles]

(***************************************************************************)
(* Schematic.readConfigs / writeConfigs: every tile of the grid.           *)
(***************************************************************************)
InGrid(grid, ref) ==
    \E r \in 1..Len(grid) : \E c \in 1..Len(grid[r]) : grid[r][c] = ref

readConfigs(grid, h) ==
    [i \in 1..Len(h) |-> IF InGrid(grid, i) THEN readConfig(h[i]) ELSE h[i]]

writeConfigs(grid, h) ==
    [i \in 1..Len(h) |-> IF InGrid(grid, i) THEN writeConfig(h[i]) ELSE h[i]]

(***************************************************************************)
(* new Schematic(height, width, version, tags, labels, tiles): an Ok with  *)
(* the schematic and the heap after readConfigs, or the throw of sortTiles.*)
(***************************************************************************)
Schematic(height, width, version, tags, labels, tiles, h) ==
    LET sorted == sortTiles(tiles, h, width, height) IN
    IF sorted.thrown # "" THEN Throw(sorted.thrown)
    ELSE Ok([height |-> height, width |-> width, version |-> version, tags |-> tags,
             labels |-> labels, tiles |-> sorted.grid],
            readConfigs(sorted.grid, h))

(***************************************************************************)
(* Schematic.read.  inputData is [head, inflates, data]: head holds the    *)
(* buffer's bytes at offsets 0..4 (fewer when the buffer is shorter),      *)
(* inflates says whether zlib.inflateSync accepts the bytes from offset 5, *)
(* and data is what they inflate to:                                       *)
(*   [width, height: 2 bytes; tags: Seq(<<key, value>>); blocks: Seq(name);*)
(*    numTiles: 4 bytes; records: Seq([id: byte, pos: 4 bytes,             *)
(*    config: bytes, rotation: byte])].                                    *)
(* A read past the end of a SmartBuffer throws; zlib.inflateSync throws on *)
(* bytes that are no deflate stream; new Array(n) throws a RangeError for  *)
(* n < 0.                                                                  *)
(***************************************************************************)
headerBytes == <<109, 115, 99, 104>>

\* Record i (0-based) of the tile loop: what the loop body does with it.
readRecord(i, data, blocks, width, height) ==
    IF i + 1 > Len(data.records) THEN Throw("OutOfBounds")
    ELSE LET rec == data.records[i + 1]
             id == readInt8(rec.id)
             block == IF 0 <= id /\ id < Len(blocks) THEN <<blocks[id + 1]>> ELSE <<>>
             xy == unpack(readInt32BE(rec.pos))
             x == xy[1]
             y == xy[2]
             config == readObject(rec.config)
             rotation == readInt8(rec.rotation)
         IN  IF rotation \notin {0, 1, 2, 3} THEN Err("Invalid rotation", <<rotation>>)
             ELSE IF ~(x < width /\ y < height)
                  THEN Err("Invalid position", <<x, y, width, height>>)
             ELSE IF block = <<>> \/ block[1] = "" \/ block[1] = "air"
                  THEN [kind |-> "continue"]
             ELSE [kind |-> "tile", tile |-> Tile(block[1], x, y, config, rotation)]

\* The tile loop: the first record that returns or throws ends read; otherwise
\* tiles[i] is the new Tile of record i, and a hole for a record that continued.
readTileLoop(numTiles, data, blocks, width, height) ==
    LET body == [k \in 1..numTiles |-> readRecord(k - 1, data, blocks, width, height)]
        stops == {k \in 1..numTiles : body[k].kind \in {"error", "throw"}}
        first == CHOOSE k \in stops : \A j \in stops : k <= j
        made == SelectSeq([k \in 1..numTiles |-> k], LAMBDA k : body[k].kind = "tile")
    IN  IF stops # {} THEN body[first]
        ELSE [kind |-> "done",
              tiles |-> [k \in 1..numTiles |->
                            IF body[k].kind = "tile"
                            THEN Cardinality({j \in 1..k : body[j].kind = "tile"})
                            ELSE 0],
              heap |-> [j \in 1..Len(made) |-> body[made[j]].tile]]

readPayload(version, data) ==
    LET width == readUInt16BE(data.width)
        height == readUInt16BE(data.height)
    IN  IF width > 128 \/ height > 128 THEN Err("Schematic is too large", <<>>)
        ELSE
        LET tags == readTags(data.tags, <<>>)
            parsed == JSONparse(Get(tags, "labels"))
            labels == IF parsed = JThrows THEN EmptyList ELSE parsed
            blocks == data.blocks
            numTiles == readInt32BE(data.numTiles)
        IN  IF numTiles < 0 THEN Throw("RangeError")
            ELSE IF numTiles > width * height
                 THEN Err("Schematic contains too many tiles", <<width * height, numTiles>>)
            ELSE
            LET loop == readTileLoop(numTiles, data, blocks, width, height)
            IN  IF loop.kind # "done" THEN loop
                ELSE Schematic(height, width, version, tags, labels, loop.tiles, loop.heap)

read(buf) ==
    LET head == buf.head
        bad == {i \in 1..4 : i > Len(head) \/ readUInt8(head[i]) # headerBytes[i]}
        first == CHOOSE i \in bad : \A j \in bad : i <= j
    IN  IF bad # {}
        THEN IF first > Len(head) THEN Throw("OutOfBounds")
             ELSE Err("Not a schematic file (header bytes did not match)", <<>>)
        ELSE IF Len(head) < 5 THEN Throw("OutOfBounds")
        ELSE LET version == readInt8(head[5]) IN
             IF version # 1 THEN Err("Unknown schematic version", <<version>>)
             ELSE IF ~buf.inflates THEN Throw("zlib")
             ELSE readPayload(version, buf.data)

(***************************************************************************)
(* Schematic.unsortTiles: tiles.flat().filter(Boolean), the references of  *)
(* the non-empty cells row by row.                                         *)
(***************************************************************************)
RECURSIVE flat(_)
flat(grid) == IF grid = <<>> THEN <<>> ELSE grid[1] \o flat(Tail(grid))

unsortTiles(grid) == SelectSeq(flat(grid), LAMBDA ref : ref # 0)

(***************************************************************************)
(* Schematic.getBlockMap: allNames are the keys of the Map in insertion    *)
(* order, mapping pairs every tile with the id of its name.                *)
(***************************************************************************)
IndexOf(names, n) == CHOOSE i \in 1..Len(names) : names[i] = n

\* getBlockMap with the Map lookup never finding the name: every tile inserts its
\* name again and takes a fresh id.
getBlockMapNoReuse(unsortedTiles, h) ==
    LET n == Len(unsortedTiles)
    IN  [allNames |-> [k \in 1..n |-> h[unsortedTiles[k]].name],
         mapping |-> [k \in 1..n |-> <<unsortedTiles[k], k - 1>>]]

\* The Map gets a new key, with id mapping.size, at every tile whose name no
\* earlier tile has; every tile is paired with the id its name has by then.
getBlockMap(unsortedTiles, h) ==
    LET n == Len(unsortedTiles)
        name(k) == h[unsortedTiles[k]].name
        isNew == [k \in 1..n |-> \A j \in 1..(k - 1) : name(j) # name(k)]
        inserted == SelectSeq([k \in 1..n |-> k], LAMBDA k : isNew[k])
        allNames == [i \in 1..Len(inserted) |-> name(inserted[i])]
    IN  [allNames |-> allNames,
         mapping |-> [k \in 1..n |-> <<unsortedTiles[k], IndexOf(allNames, name(k)) - 1>>]]

(***************************************************************************)
(* Schematic.write: the buffer written for schematic s over heap h (after  *)
(* writeConfigs).  The labels field is not written; the tags are.          *)
(***************************************************************************)
NoBuffer == [head |-> <<>>, inflates |-> FALSE, data |-> <<>>]

tileRecord(tile, i) ==
    [id |-> writeUInt8(i), pos |-> writeInt32BE(pack(tile.x, tile.y)),
     config |-> writeObject(tile.config), rotation |-> writeUInt8(tile.rotation)]

write(s, h) ==
    LET blockMap == getBlockMap(unsortTiles(s.tiles), h)
        allNames == blockMap.allNames
        mapping == blockMap.mapping
    IN  [head |-> headerBytes \o <<writeUInt8(s.version)>>,
         inflates |-> TRUE,
         data |-> [width |-> writeUInt16BE(s.width),
                   height |-> writeUInt16BE(s.height),
                   tags |-> s.tags,
                   blocks |-> allNames,
                   numTiles |-> writeInt32BE(Len(mapping)),
                   records |-> [k \in 1..Len(mapping) |->
                                   tileRecord(h[mapping[k][1]], mapping[k][2])]]]

(***************************************************************************)
(* Schematic.setTileAt(x, y, tile) on grid `grid': tile.x and tile.y are   *)
(* assigned first; this.tiles[y] is undefined for a y outside the rows and *)
(* the store into it is a TypeError; a store at x >= row.length grows the  *)
(* row (the cells between are holes); a store at a negative x sets a       *)
(* property of the row that is no array element.                           *)
(***************************************************************************)
storeCell(row, x, ref) ==
    IF x < 0 THEN row
    ELSE IF x < Len(row) THEN [row EXCEPT ![x + 1] = ref]
    ELSE row \o [k \in 1..(x - Len(row)) |-> 0] \o <<ref>>

setTileAt(grid, x, y, ref) ==
    IF ~(0 <= y /\ y < Len(grid)) THEN [thrown |-> "TypeError", grid |-> grid]
    ELSE [thrown |-> "", grid |-> [grid EXCEPT ![y + 1] = storeCell(grid[y + 1], x, ref)]]

(***************************************************************************)
(* The caller's tiles and schematics.                                      *)
(***************************************************************************)
TileKinds ==
    <<[name |-> "conveyor", config |-> ConfigNull, rotation |-> 0],
      [name |-> "sorter", config |-> [type |-> 5, value |-> <<0, 3>>], rotation |-> 1],
      [name |-> "router", config |-> [type |-> 1, value |-> <<-7>>], rotation |-> 3]>>

TagMaps == {<<>>, << <<"name", "x">> >>, << <<"labels", "[\"a\"]">>, <<"name", "x">> >>}

LabelLists == {EmptyList, StringList(<<"a">>)}

\* The cells of a width x height grid in row-major order, as <<row, column>>.
AllCells(width, height) ==
    [k \in 1..(width * height) |-> <<((k - 1) \div width) + 1, ((k - 1) % width) + 1>>]

\* The tiles a caller creates for the cells that `kindAt' gives a kind (0: none).
NewTiles(width, height, kindAt) ==
    LET placed == SelectSeq(AllCells(width, height), LAMBDA p : kindAt[p] # 0)
    IN  [k \in 1..Len(placed) |->
            LET kind == TileKinds[kindAt[placed[k]]]
            IN  Tile(kind.name, placed[k][2] - 1, placed[k][1] - 1, kind.config,
                     kind.rotation)]

\* The tiles of a schematic whose first n cells hold n distinct block names.
WideTiles(width, n) ==
    [k \in 1..n |->
        Tile("block" \o ToString(k), (k - 1) % width, (k - 1) \div width, ConfigNull, 0)]

(***************************************************************************)
(* Codec model: a schematic is constructed, written, and the written       *)
(* buffer is read back.                                                    *)
(***************************************************************************)
Constructed(height, width, tags, labels, h) ==
    LET made == Schematic(height, width, 1, tags, labels, [k \in 1..Len(h) |-> k], h)
    IN  /\ made.kind = "ok"
        /\ sch = made.sch
        /\ heap = made.heap
        /\ thrown = ""
        /\ inputData = NoBuffer
        /\ output = NoBuffer
        /\ result = NoResult

InitSmall ==
    \E width \in 0..MaxCells, height \in 0..MaxCells :
        /\ width * height <= MaxCells
        /\ \E kindAt \in [(1..height) \X (1..width) -> 0..Len(TileKinds)],
              tags \in TagMaps, labels \in LabelLists :
                Constructed(height, width, tags, labels, NewTiles(width, height, kindAt))

InitWide ==
    \E n \in 1..MaxNames :
        Constructed(2, 128, <<>>, EmptyList, WideTiles(128, n))

InitCodec == InitSmall \/ InitWide

Write ==
    /\ output = NoBuffer
    /\ heap' = writeConfigs(sch.tiles, heap)
    /\ output' = write(sch, heap')
    /\ UNCHANGED <<sch, thrown, inputData, result>>

ReadBack ==
    /\ output # NoBuffer
    /\ result = NoResult
    /\ inputData' = output
    /\ result' = read(output)
    /\ UNCHANGED <<heap, sch, thrown, output>>

NextCodec == Write \/ ReadBack

SpecCodec == InitCodec /\ [][NextCodec]_vars

(***************************************************************************)
(* Grid model: a schematic is constructed from the caller's tiles and      *)
(* setTileAt is applied with any coordinates and any of the caller's       *)
(* tiles.                                                                  *)
(***************************************************************************)
InitGrid ==
    \E width \in 1..MaxSide, height \in 1..MaxSide, n \in 0..MaxObjects :
    \E xs \in [1..MaxObjects -> 0..(width - 1)], ys \in [1..MaxObjects -> 0..(height - 1)] :
        LET h == [k \in 1..MaxObjects |->
                     Tile(TileKinds[((k - 1) % Len(TileKinds)) + 1].name,
                          xs[k], ys[k], ConfigNull, 0)]
            made == Schematic(height, width, 1, <<>>, EmptyList, [k \in 1..n |-> k], h)
        IN  /\ made.kind = "ok"
            /\ sch = made.sch
            /\ heap = made.heap
            /\ thrown = ""
            /\ inputData = NoBuffer
            /\ output = NoBuffer
            /\ result = NoResult

SetTileAt ==
    \E x \in -1..MaxSide, y \in -1..MaxSide, ref \in 1..Len(heap) :
        LET done == setTileAt(sch.tiles, x, y, ref)
        IN  /\ heap' = [heap EXCEPT ![ref].x = x, ![ref].y = y]
            /\ sch' = [sch EXCEPT !.tiles = done.grid]
            /\ thrown' = done.thrown
            /\ UNCHANGED <<inputData, output, result>>

NextGrid == SetTileAt

SpecGrid == InitGrid /\ [][NextGrid]_vars

(***************************************************************************)
(* Read model: read is applied to a buffer.  The buffers vary the header,  *)
(* whether the payload inflates, the size, the tags, the declared tile     *)
(* count and the tile records.                                             *)
(***************************************************************************)
GoodHead == headerBytes \o <<1>>

Heads ==
    {SubSeq(GoodHead, 1, n) : n \in 0..5}
        \cup {<<120>>, <<109, 115, 120>>, <<120, 115, 99, 104, 1>>, <<109, 115, 99, 104, 2>>,
              <<109, 115, 99, 104, 0>>, <<109, 115, 99, 104, 200>>}

BlockTable == <<"conveyor", "air", "">>

Data(width, height, tags, numTiles, records) ==
    [width |-> writeUInt16BE(width), height |-> writeUInt16BE(height), tags |-> tags,
     blocks |-> BlockTable, numTiles |-> numTiles, records |-> records]

Record(id, x, y, config, rotation) ==
    [id |-> id, pos |-> writeInt32BE(pack(x, y)), config |-> writeObject(config),
     rotation |-> rotation]

Buffer(head, inflates, data) == [head |-> head, inflates |-> inflates, data |-> data]

RecordSet ==
    {Record(id, x, y, ConfigNull, rotation) :
        id \in 0..Len(BlockTable), x \in -1..2, y \in -1..1, rotation \in {0, 3, 4}}
        \cup {Record(0, x, 0, TileKinds[3].config, 1) : x \in 0..1}

RecordLists == UNION {[1..n -> RecordSet] : n \in 0..MaxRecords}

Sizes == {<<1, 1>>, <<2, 1>>, <<1, 2>>}

GoodRecords == {<<>>, <<Record(0, 0, 0, ConfigNull, 0)>>,
                <<Record(0, 0, 0, ConfigNull, 0), Record(0, 0, 0, ConfigNull, 2)>>}

Counts ==
    {writeInt32BE(n) : n \in -2..5}
        \cup {<<127, 255, 255, 255>>, <<128, 0, 0, 0>>, <<0, 0, 64, 1>>}

LabelTexts == {"[]", "[\"a\"]", "[\"a\",\"b\"]", "[1]", "5", "{}", "\"a\"", "oops", ""}

TagLists ==
    {<<>>, << <<"name", "x">> >>}
        \cup {<< <<"labels", v>> >> : v \in LabelTexts}
        \cup {<< <<"name", "x">>, <<"labels", v>>, <<"name", "y">> >> : v \in LabelTexts}
        \cup {<< <<"labels", v>>, <<"labels", "[\"a\"]">> >> : v \in LabelTexts}

HeadInputs == {Buffer(head, inflates, Data(1, 1, <<>>, writeInt32BE(0), <<>>)) :
                  head \in Heads, inflates \in BOOLEAN}

SizeInputs == {Buffer(GoodHead, TRUE, Data(width, height, <<>>, writeInt32BE(0), <<>>)) :
                  width \in {0, 1, 128, 129, 65535}, height \in {0, 2, 128, 129}}

TagInputs == {Buffer(GoodHead, TRUE, Data(1, 1, tags, writeInt32BE(Len(records)), records)) :
                 tags \in TagLists, records \in {rs \in GoodRecords : Len(rs) <= 1}}

CountInputs == {Buffer(GoodHead, TRUE, Data(size[1], size[2], <<>>, numTiles, records)) :
                   size \in Sizes \cup {<<128, 128>>}, numTiles \in Counts,
                   records \in GoodRecords}

RecordInputs == {Buffer(GoodHead, TRUE,
                        Data(size[1], size[2], <<>>, writeInt32BE(Len(records)), records)) :
                    size \in Sizes, records \in RecordLists}

Inputs == HeadInputs \cup SizeInputs \cup TagInputs \cup CountInputs \cup RecordInputs

InitRead ==
    /\ inputData \in Inputs
    /\ result = NoResult
    /\ heap = <<>>
    /\ sch = NoSchematic
    /\ thrown = ""
    /\ output = NoBuffer

Read ==
    /\ result = NoResult
    /\ result' = read(inputData)
    /\ UNCHANGED <<heap, sch, thrown, inputData, output>>

NextRead == Read

SpecRead == InitRead /\ [][NextRead]_vars

(***************************************************************************)
(* What a read buffer declares, for the statements about read.             *)
(***************************************************************************)
Decodes ==
    /\ inputData.head = GoodHead
    /\ inputData.inflates
    /\ readUInt16BE(inputData.data.width) <= 128
    /\ readUInt16BE(inputData.data.height) <= 128

DeclaredWidth == readUInt16BE(inputData.data.width)
DeclaredHeight == readUInt16BE(inputData.data.height)
DeclaredTiles == readInt32BE(inputData.data.numTiles)
Records == inputData.data.records

\* The records are the declared ones and fit the grid.
CountFits == DeclaredTiles = Len(Records) /\ DeclaredTiles <= DeclaredWidth * DeclaredHeight

RecordName(k) ==
    IF Records[k].id < Len(inputData.data.blocks)
    THEN <<inputData.data.blocks[Records[k].id + 1]>>
    ELSE <<>>

RecordXY(k) == unpack(readInt32BE(Records[k].pos))

ValidRotation(k) == Records[k].rotation \in {0, 1, 2, 3}

InBounds(k) ==
    /\ 0 <= RecordXY(k)[1] /\ RecordXY(k)[1] < DeclaredWidth
    /\ 0 <= RecordXY(k)[2] /\ RecordXY(k)[2] < DeclaredHeight

Skipped(k) == RecordName(k) \in {<<>>, <<"">>, <<"air">>}

\* The tile (<<>>: none) that cell (r, c) of a read schematic holds.
CellOf(res, r, c) ==
    IF res.sch.tiles[r][c] = 0 THEN <<>> ELSE <<res.heap[res.sch.tiles[r][c]]>>

(***************************************************************************)
(* C3: a tile record whose block index resolves to "air", to an empty name *)
(* or to no name is skipped: read returns a Schematic in which it adds no  *)
(* tile and every other record's tile sits at its [y][x] cell.             *)
(***************************************************************************)
C3_SkippedRecords ==
    ( /\ result.kind # "none"
      /\ Decodes /\ CountFits
      /\ \A k \in 1..Len(Records) : ValidRotation(k) /\ InBounds(k)
      /\ \E k \in 1..Len(Records) : Skipped(k) )
    => /\ result.kind = "ok"
       /\ \A r \in 1..DeclaredHeight, c \in 1..DeclaredWidth :
            LET here == {k \in 1..Len(Records) :
                            ~Skipped(k) /\ RecordXY(k) = <<c - 1, r - 1>>}
                last == CHOOSE k \in here : \A j \in here : j <= k
            IN  IF here = {} THEN CellOf(result, r, c) = <<>>
                ELSE /\ CellOf(result, r, c) # <<>>
                     /\ CellOf(result, r, c)[1].name = RecordName(last)[1]
                     /\ CellOf(result, r, c)[1].x = c - 1
                     /\ CellOf(result, r, c)[1].y = r - 1

C5_CorruptPayloadReturned ==
    (result.kind # "none" /\ inputData.head = GoodHead /\ ~inputData.inflates)
    => result.kind = "error"

(***************************************************************************)
(* C6: for a buffer of any length, read returns the bad-magic error when   *)
(* the first 4 bytes are not "msch", and the unsupported-version error     *)
(* when the magic matches and the version byte is not 1.                   *)
(***************************************************************************)
C6_MagicVersionGate ==
    LET head == inputData.head
        magic == Len(head) >= 4 /\ \A i \in 1..4 : head[i] = headerBytes[i]
    IN  result.kind # "none" =>
            /\ ~magic
                => /\ result.kind = "error"
                   /\ result.msg = "Not a schematic file (header bytes did not match)"
            /\ (magic /\ Len(head) = 5 /\ head[5] # 1)
                => result.kind = "error" /\ result.msg = "Unknown schematic version"

(***************************************************************************)
(* C7: for every declared tile count n of the signed 32-bit range, read    *)
(* returns the too-many-tiles error exactly when n > width * height, and   *)
(* never throws at the tile-count step.                                    *)
(***************************************************************************)
C7_TileCountGate ==
    (result.kind # "none" /\ Decodes) =>
        /\ (result.kind = "error" /\ result.msg = "Schematic contains too many tiles")
              <=> DeclaredTiles > DeclaredWidth * DeclaredHeight
        /\ ~(result.kind = "throw" /\ result.msg = "RangeError")

(***************************************************************************)
(* C10: after a successful read, labels is a list of strings: the parsed   *)
(* value when the "labels" tag is a JSON array of strings, the empty list  *)
(* otherwise.                                                              *)
(***************************************************************************)
C10_LabelsFallback ==
    result.kind = "ok" =>
        LET parsed == JSONparse(Get(result.sch.tags, "labels"))
        IN  /\ IsStringList(result.sch.labels)
            /\ IsStringList(parsed) => result.sch.labels = parsed
            /\ ~IsStringList(parsed) => result.sch.labels = EmptyList

(***************************************************************************)
(* C2: every non-null cell tiles[row][col] holds a tile with x = col and   *)
(* y = row, and the grid keeps height rows of width cells, after any       *)
(* sequence of setTileAt calls.                                            *)
(***************************************************************************)
C2_GridInvariant ==
    /\ Len(sch.tiles) = sch.height
    /\ \A r \in 1..Len(sch.tiles) :
        /\ Len(sch.tiles[r]) = sch.width
        /\ \A c \in 1..Len(sch.tiles[r]) :
            sch.tiles[r][c] # 0 =>
                heap[sch.tiles[r][c]].x = c - 1 /\ heap[sch.tiles[r][c]].y = r - 1

(***************************************************************************)
(* The non-empty cells of the caller's schematic in row-major order, as    *)
(* <<row, column>>.                                                        *)
(***************************************************************************)
Visited ==
    SelectSeq(AllCells(sch.width, sch.height), LAMBDA p : sch.tiles[p[1]][p[2]] # 0)

(***************************************************************************)
(* C1: read(s.write()) returns a Schematic with the width, height, grid,   *)
(* tags and labels of s.  (Stated for schematics of at most 128 block      *)
(* names.)                                                                 *)
(***************************************************************************)
C1_RoundTrip ==
    (result.kind # "none" /\ Len(output.data.blocks) <= 128) =>
        /\ result.kind = "ok"
        /\ result.sch.width = sch.width
        /\ result.sch.height = sch.height
        /\ \A r \in 1..sch.height, c \in 1..sch.width :
              CellOf(result, r, c) = CellOf([sch |-> sch, heap |-> heap], r, c)
        /\ result.sch.tags = sch.tags
        /\ result.sch.labels = sch.labels

(***************************************************************************)
(* C8: write visits the tiles in row-major order; the written name table   *)
(* holds each distinct block name once, in order of first appearance; the  *)
(* ids are 0, 1, 2, ... without gaps; every tile record carries the id of  *)
(* its tile's name; the written tile count is the number of non-empty      *)
(* cells.                                                                  *)
(***************************************************************************)
C8_Interning ==
    output # NoBuffer =>
        LET table == output.data.blocks
            recs == output.data.records
            visited == Visited
            n == Len(visited)
            name == [k \in 1..n |-> heap[sch.tiles[visited[k][1]][visited[k][2]]].name]
            firstVisit == [i \in 1..Len(table) |->
                              CHOOSE k \in 1..n :
                                  /\ name[k] = table[i]
                                  /\ \A j \in 1..(k - 1) : name[j] # table[i]]
        IN  /\ readInt32BE(output.data.numTiles) = n
            /\ Len(recs) = n
            /\ \A i, j \in 1..Len(table) : table[i] = table[j] => i = j
            /\ {table[i] : i \in 1..Len(table)} = {name[k] : k \in 1..n}
            /\ \A i \in 1..(Len(table) - 1) : firstVisit[i] < firstVisit[i + 1]
            /\ {recs[k].id : k \in 1..n} = 0..(Len(table) - 1)
            /\ \A k \in 1..n :
                  /\ table[recs[k].id + 1] = name[k]
                  /\ unpack(readInt32BE(recs[k].pos))
                        = <<visited[k][2] - 1, visited[k][1] - 1>>

\* Three tiles after an empty first cell, the first name met again, and a table
\* that is not in the order of TileKinds.
C8_Witness ==
    /\ output # NoBuffer
    /\ Len(output.data.records) = 3
    /\ sch.tiles[1][1] = 0
    /\ output.data.blocks = <<TileKinds[3].name, TileKinds[1].name>>
    /\ output.data.records[3].id = 0

(***************************************************************************)
(* C9: the block index is an unsigned byte on both sides: whatever index   *)
(* in 0..254 write emits, read resolves the tile to that table entry, so a *)
(* schematic of more than 128 block names decodes every tile to the name   *)
(* it was written with.                                                    *)
(***************************************************************************)
C9_UnsignedBlockIndex ==
    (result.kind # "none" /\ Len(output.data.blocks) <= 255) =>
        /\ result.kind = "ok"
        /\ \A r \in 1..sch.height, c \in 1..sch.width :
              sch.tiles[r][c] # 0 =>
                  /\ CellOf(result, r, c) # <<>>
                  /\ CellOf(result, r, c)[1].name = heap[sch.tiles[r][c]].name

====
